---- MODULE Spec2Model ----
(***************************************************************************)
(* Model of createAliasMap (qodesmith/cna-vite-setup): the alias registry  *)
(* (fileMap), the chokidar watcher handlers, the tsconfig.paths.json codec *)
(* and the cold / warm bootstrap driven by process.env.                    *)
(*                                                                         *)
(* Strings are sequences of one-character strings, so that startsWith,     *)
(* path.parse, path.relative, path.resolve, the key comparison and the     *)
(* hand-written JSON text can be computed the way the code computes them.  *)
(* The host is POSIX: path.sep is "/".                                     *)
(***************************************************************************)
EXTENDS Integers, Sequences, FiniteSets, TLC

\* ------------------------------------------------------------------ bounds

\* Invocations of createAliasMap in one process lifetime.
MaxBoot == 2
\* Watcher events (add / unlink) delivered in one process lifetime (Spec).
MaxEvents == 2
\* Watcher events delivered to the watcher of a single cold start (SpecCold).
MaxColdEvents == 3
\* Watcher events delivered to a watcher whose writes keep up (SpecRegistry).
MaxRegistryEvents == 3
\* Watcher events delivered over the tree of differently cased names (SpecNames).
MaxNameEvents == 3
\* Watcher events delivered to a watcher whose writes may fail (SpecColdFault).
MaxFaultEvents == 2
\* Watcher events delivered to the watchers of overlapping cold starts
\* (SpecOverlap).
MaxOverlapEvents == 4
\* Watcher events of the one cold start over two roots (SpecSetup).
MaxSetupEvents == 2

\* --------------------------------------------------------------- environment

VARIABLE
    locale      \* the default locale of the host (ICU, from LANG / LC_ALL)

\* A locale without special casing rules, and a Turkic one.
Locales == {"en-US", "tr-TR"}

\* ----------------------------------------------------------------- strings

SEP == "/"
DQUOTE == "\""
\* U+0131, LATIN SMALL LETTER DOTLESS I.
DOTLESS_I == "dotless-i"

\* s.startsWith(pre)
StartsWith(s, pre) ==
    /\ Len(pre) <= Len(s)
    /\ \A i \in 1..Len(pre) : s[i] = pre[i]

\* The index of the last occurrence of character c in s, 0 when there is none.
LastIndexOf(s, c) ==
    LET hits == {i \in 1..Len(s) : s[i] = c}
    IN  IF hits = {} THEN 0 ELSE CHOOSE i \in hits : \A j \in hits : j <= i

\* UTF-16 code unit of the characters the model uses.
CharCode(c) ==
    CASE c = DQUOTE -> 34
      [] c = "#" -> 35
      [] c = "-" -> 45
      [] c = "." -> 46
      [] c = "/" -> 47
      [] c = "0" -> 48
      [] c = "1" -> 49
      [] c = "2" -> 50
      [] c = "@" -> 64
      [] c = "B" -> 66
      [] c = "I" -> 73
      [] c = "X" -> 88
      [] c = "Y" -> 89
      [] c = "Z" -> 90
      [] c = "a" -> 97
      [] c = "b" -> 98
      [] c = "d" -> 100
      [] c = "e" -> 101
      [] c = "g" -> 103
      [] c = "h" -> 104
      [] c = "i" -> 105
      [] c = "j" -> 106
      [] c = "l" -> 108
      [] c = "n" -> 110
      [] c = "p" -> 112
      [] c = "q" -> 113
      [] c = "s" -> 115
      [] c = "t" -> 116
      [] c = "v" -> 118
      [] c = "x" -> 120
      [] c = "y" -> 121
      [] c = "z" -> 122
      [] c = DOTLESS_I -> 305

LowerChar(c) ==
    CASE c = "B" -> "b"
      [] c = "I" -> "i"
      [] c = "X" -> "x"
      [] c = "Y" -> "y"
      [] c = "Z" -> "z"
      [] OTHER -> c

\* String.prototype.toLowerCase
ToLowerCase(s) == [i \in 1..Len(s) |-> LowerChar(s[i])]

\* String.prototype.toLocaleLowerCase under the host locale: it agrees with
\* toLowerCase except for the special casing of the locale; in a Turkic locale
\* the lower case of I is the dotless i.
ToLocaleLowerCase(s) ==
    [i \in 1..Len(s) |->
        IF locale = "tr-TR" /\ s[i] = "I" THEN DOTLESS_I ELSE LowerChar(s[i])]

\* JavaScript's a < b on strings: lexicographic on code units.
RECURSIVE StrLess(_, _)
StrLess(a, b) ==
    IF b = <<>> THEN FALSE
    ELSE IF a = <<>> THEN TRUE
    ELSE IF CharCode(a[1]) # CharCode(b[1]) THEN CharCode(a[1]) < CharCode(b[1])
    ELSE StrLess(Tail(a), Tail(b))

\* ------------------------------------------------------------ path (POSIX)

\* The segments of a path: the text between separators, empty ones dropped.
RECURSIVE Segments(_)
Segments(p) ==
    IF p = <<>> THEN <<>>
    ELSE IF p[1] = SEP THEN Segments(Tail(p))
    ELSE LET rest == Segments(Tail(p))
         IN  IF Len(p) > 1 /\ p[2] # SEP
             THEN <<(<<p[1]>> \o rest[1])>> \o Tail(rest)
             ELSE <<(<<p[1]>>)>> \o rest

RECURSIVE JoinSegments(_)
JoinSegments(segs) ==
    IF segs = <<>> THEN <<>>
    ELSE IF Len(segs) = 1 THEN segs[1]
    ELSE segs[1] \o <<SEP>> \o JoinSegments(Tail(segs))

\* Normalisation of a segment list: "." is dropped, ".." pops.
RECURSIVE NormalizeSegments(_, _)
NormalizeSegments(done, todo) ==
    IF todo = <<>> THEN done
    ELSE IF todo[1] = <<".">> THEN NormalizeSegments(done, Tail(todo))
    ELSE IF todo[1] = <<".", ".">>
         THEN NormalizeSegments(
                  IF done = <<>> THEN <<>> ELSE SubSeq(done, 1, Len(done) - 1),
                  Tail(todo))
    ELSE NormalizeSegments(Append(done, todo[1]), Tail(todo))

\* path.resolve(from, to) with from absolute.
PathResolve(from, to) ==
    LET segs == IF to # <<>> /\ to[1] = SEP
                THEN Segments(to)
                ELSE Segments(from) \o Segments(to)
    IN  <<SEP>> \o JoinSegments(NormalizeSegments(<<>>, segs))

RECURSIVE CommonPrefixLen(_, _)
CommonPrefixLen(a, b) ==
    IF a = <<>> \/ b = <<>> \/ a[1] # b[1] THEN 0
    ELSE 1 + CommonPrefixLen(Tail(a), Tail(b))

\* path.relative(from, to) with both absolute and normalised.
PathRelative(from, to) ==
    LET f == Segments(from)
        t == Segments(to)
        n == CommonPrefixLen(f, t)
        ups == [i \in 1..(Len(f) - n) |-> <<".", ".">>]
    IN  JoinSegments(ups \o SubSeq(t, n + 1, Len(t)))

\* path.parse(p).name: the last segment without its extension; a leading dot
\* starts no extension.
PathParseName(p) ==
    LET base == SubSeq(p, LastIndexOf(p, SEP) + 1, Len(p))
        dot == LastIndexOf(base, ".")
    IN  IF dot <= 1 THEN base ELSE SubSeq(base, 1, dot - 1)

\* ------------------------------------------------- JavaScript plain objects

\* A plain object with string keys is the sequence of its own properties in
\* creation order: records [key |-> string, vals |-> array of strings].
HasKey(obj, k) == \E i \in 1..Len(obj) : obj[i].key = k

IndexOfKey(obj, k) == CHOOSE i \in 1..Len(obj) : obj[i].key = k

\* obj[k]; asked only where the key exists.
GetKey(obj, k) == obj[IndexOfKey(obj, k)].vals

\* obj[k] = v: an existing property keeps its place, a new one goes last.
SetKey(obj, k, v) ==
    IF HasKey(obj, k)
    THEN [obj EXCEPT ![IndexOfKey(obj, k)] = [key |-> k, vals |-> v]]
    ELSE Append(obj, [key |-> k, vals |-> v])

\* delete obj[k]
DeleteKey(obj, k) == SelectSeq(obj, LAMBDA e : e.key # k)

IsDigit(c) == c \in {"0", "1", "2"}

\* An array index in the sense of ECMAScript: the canonical decimal text of an
\* integer below 2^32 - 1 (the model's digit strings are far shorter).
IsArrayIndex(k) ==
    /\ k # <<>>
    /\ \A i \in 1..Len(k) : IsDigit(k[i])
    /\ (k[1] = "0" => Len(k) = 1)

\* Numeric order of two array-index keys: shorter first, then by code units.
IndexLess(a, b) == Len(a) < Len(b) \/ (Len(a) = Len(b) /\ StrLess(a, b))

\* Insertion of the property e into a list of array-index properties in
\* ascending numeric order.
RECURSIVE InsertIndexEntry(_, _)
InsertIndexEntry(sorted, e) ==
    IF sorted = <<>> THEN <<e>>
    ELSE IF IndexLess(e.key, sorted[1].key) THEN <<e>> \o sorted
    ELSE <<sorted[1]>> \o InsertIndexEntry(Tail(sorted), e)

RECURSIVE SortIndexEntries(_)
SortIndexEntries(s) ==
    IF s = <<>> THEN <<>>
    ELSE InsertIndexEntry(SortIndexEntries(SubSeq(s, 1, Len(s) - 1)), s[Len(s)])

\* Object.entries(obj): own properties in OrdinaryOwnPropertyKeys order, the
\* array-index keys first in ascending numeric order, then the other keys in
\* creation order.
ObjectEntries(obj) ==
    SortIndexEntries(SelectSeq(obj, LAMBDA e : IsArrayIndex(e.key)))
    \o SelectSeq(obj, LAMBDA e : ~IsArrayIndex(e.key))

\* Object.keys(obj)
ObjectKeys(obj) == [i \in 1..Len(obj) |-> ObjectEntries(obj)[i].key]

\* The strings a fileMap holds in its arrays.
PathsOfFileMap(fileMap) ==
    UNION {{fileMap[i].vals[j] : j \in 1..Len(fileMap[i].vals)} :
              i \in 1..Len(fileMap)}

\* ------------------------------------------------------- program constants

\* DIR_NAME: the directory of the module, the base of every relative path.
DIR_NAME == <<"/", "d">>

\* The value of a property or element that does not exist.
Undefined == <<"undefined">>

\* The text ensureTsConfigPaths.js leaves in tsconfig.paths.json: "{}\n".
EnsureContents == [kind |-> "emptyObject", lines |-> <<>>]

\* The values of `ignored`: absent, one RegExp, or an array of RegExps.
NoIgnored == [kind |-> "undefined", source |-> <<>>, items |-> <<>>]

RegExpOf(source) == [kind |-> "regexp", source |-> source, items |-> <<>>]

ArrayOf(items) == [kind |-> "array", source |-> <<>>, items |-> items]

\* The inputs of createAliasMap: lists of {sourcePath, extensions, prefix,
\* ignored}; an absent prefix is the empty string (both take the same branch).
ArrInputs ==
    { << [sourcePath |-> <<".", "/", "a">>, extensions |-> {<<".", "t">>},
          prefix |-> <<"@">>, ignored |-> NoIgnored],
         [sourcePath |-> <<".", "/", "b">>, extensions |-> {<<".", "t">>},
          prefix |-> <<>>, ignored |-> NoIgnored] >> }

\* The values of `ignored` the setups below are made of: /\/g\//, /Y./.
IgnoredInputs ==
    { NoIgnored,
      RegExpOf(<<"/", "g", "/">>),
      ArrayOf(<<>>),
      ArrayOf(<<RegExpOf(<<"/", "g", "/">>), RegExpOf(<<"Y", ".">>)>>) }

\* Setups of two roots, one of whose paths is a string prefix of the other's
\* (./a and ./ab), in either order, with and without a prefix on ./ab, and
\* with every pairing of the values of `ignored`.
SetupInputs ==
    UNION { { << [sourcePath |-> <<".", "/", "a">>,
                  extensions |-> {<<".", "t", "s">>},
                  prefix |-> <<"@">>, ignored |-> ig1],
                 [sourcePath |-> <<".", "/", "a", "b">>,
                  extensions |-> {<<".", "t", "s">>},
                  prefix |-> pre, ignored |-> ig2] >>,
              << [sourcePath |-> <<".", "/", "a", "b">>,
                  extensions |-> {<<".", "t", "s">>},
                  prefix |-> pre, ignored |-> ig2],
                 [sourcePath |-> <<".", "/", "a">>,
                  extensions |-> {<<".", "t", "s">>},
                  prefix |-> <<"@">>, ignored |-> ig1] >> } :
            ig1 \in IgnoredInputs, ig2 \in IgnoredInputs,
            pre \in {<<"#">>, <<>>} }

\* The files the watched trees may hold.
FilePaths ==
    { <<"/", "d", "/", "a", "/", "X", ".", "t">>,
      <<"/", "d", "/", "a", "/", "s", "/", "X", ".", "t">>,
      <<"/", "d", "/", "b", "/", "1", ".", "t">>,
      <<"/", "d", "/", "b", "/", "2", ".", "t">>,
      <<"/", "d", "/", "b", "/", "q", DQUOTE, ".", "t">> }

\* A tree of names that differ in case, under the root with no prefix.
NamePaths ==
    { <<"/", "d", "/", "b", "/", "Z", "e", "t", "a", ".", "t">>,
      <<"/", "d", "/", "b", "/", "a", "l", "p", "h", "a", ".", "t">>,
      <<"/", "d", "/", "b", "/", "B", "e", "t", "a", ".", "t">>,
      <<"/", "d", "/", "b", "/", "I", ".", "t">>,
      <<"/", "d", "/", "b", "/", "j", ".", "t">> }

\* The files of the trees of the setups: the declaration file of the
\* environment, and files in and out of a directory g.
SetupPaths ==
    { <<"/", "d", "/", "a", "/", "v", "i", "t", "e", "-", "e", "n", "v",
        ".", "d", ".", "t", "s">>,
      <<"/", "d", "/", "a", "/", "X", ".", "t", "s">>,
      <<"/", "d", "/", "a", "/", "g", "/", "X", ".", "t", "s">>,
      <<"/", "d", "/", "a", "b", "/", "X", ".", "t", "s">>,
      <<"/", "d", "/", "a", "b", "/", "Y", ".", "t", "s">> }

\* Two files that collide on a key, as every watcher over the tree reports them.
OverlapPaths ==
    { <<"/", "d", "/", "a", "/", "X", ".", "t">>,
      <<"/", "d", "/", "a", "/", "s", "/", "X", ".", "t">> }

\* The files that come and go in the runs with several invocations (Spec).
ProcessPaths ==
    { <<"/", "d", "/", "a", "/", "X", ".", "t">>,
      <<"/", "d", "/", "a", "/", "s", "/", "X", ".", "t">>,
      <<"/", "d", "/", "b", "/", "q", DQUOTE, ".", "t">> }

\* ------------------------------------------------------------ createAliasMap

\* arr.map(({sourcePath, ...rest}) => ({sourcePath: path.resolve(...), ...rest}))
ResolveAliasArray(arr) ==
    [i \in 1..Len(arr) |->
        [arr[i] EXCEPT !.sourcePath = PathResolve(DIR_NAME, arr[i].sourcePath)]]

\* The glob `${sourcePath}/**/(*ext|...)`: files below the root whose name ends
\* in one of the extensions.
MatchesGlob(p, item) ==
    /\ StartsWith(p, item.sourcePath \o <<SEP>>)
    /\ \E ext \in item.extensions :
          /\ Len(ext) < Len(p)
          /\ SubSeq(p, Len(p) - Len(ext) + 1, Len(p)) = ext

\* /vite-env.d.ts/
ViteEnvPattern ==
    RegExpOf(<<"v", "i", "t", "e", "-", "e", "n", "v", ".", "d", ".", "t", "s">>)

\* RegExp.prototype.test for a pattern of literal characters and dots: the
\* pattern matches somewhere in the text, a dot matching any one character.
RegExpTest(re, text) ==
    \E off \in 0..(Len(text) - Len(re.source)) :
        \A j \in 1..Len(re.source) :
            re.source[j] = "." \/ re.source[j] = text[off + j]

\* Mutation of IgnoredArrFrom: only the arrays are taken in.
RECURSIVE IgnoredArrOfArrays(_, _)
IgnoredArrOfArrays(aliasArray, n) ==
    IF n = 0
    THEN <<ViteEnvPattern>>
    ELSE IgnoredArrOfArrays(aliasArray, n - 1)
         \o (IF aliasArray[n].ignored.kind = "array"
             THEN aliasArray[n].ignored.items
             ELSE <<>>)

\* ignoredArr after the first n items of aliasArray.forEach: it starts as
\* [/vite-env.d.ts/]; an item's `ignored`, when truthy, is spread into it if it
\* is an array and pushed otherwise.
RECURSIVE IgnoredArrFrom(_, _)
IgnoredArrFrom(aliasArray, n) ==
    IF n = 0
    THEN <<ViteEnvPattern>>
    ELSE LET ignored == aliasArray[n].ignored
         IN  IgnoredArrFrom(aliasArray, n - 1)
             \o (IF ignored.kind # "undefined"
                 THEN (IF ignored.kind = "array"
                       THEN ignored.items
                       ELSE <<ignored>>)
                 ELSE <<>>)

\* ignoredArr as chokidar.watch receives it.
IgnoredArr(aliasArray) == IgnoredArrFrom(aliasArray, Len(aliasArray))

\* The files a watcher over aliasArray reports: those one of the globs matches
\* and none of ignoredArr does.
Watched(aliasArray) ==
    {p \in FilePaths \cup NamePaths \cup SetupPaths :
        /\ \E i \in 1..Len(aliasArray) : MatchesGlob(p, aliasArray[i])
        /\ \A j \in 1..Len(IgnoredArr(aliasArray)) :
              ~RegExpTest(IgnoredArr(aliasArray)[j], p)}

\* getImportPrefix: the prefix of the first item whose sourcePath the path
\* starts with; empty when there is no such item or it has no prefix.
GetImportPrefix(absoluteFilePath, arr) ==
    LET hits == {i \in 1..Len(arr) : StartsWith(absoluteFilePath, arr[i].sourcePath)}
    IN  IF hits = {} THEN <<>>
        ELSE arr[CHOOSE i \in hits : \A j \in hits : i <= j].prefix

\* mapKey of processWatcherEvent.
MapKey(absoluteFilePath, aliasArray) ==
    LET componentPathPrefix == GetImportPrefix(absoluteFilePath, aliasArray)
        fileName == PathParseName(absoluteFilePath)
    IN  IF componentPathPrefix # <<>>
        THEN componentPathPrefix \o <<SEP>> \o fileName
        ELSE fileName

\* Mutation of AddPath: the new path goes first (the last added wins).
AddPathPrepends(fileMap, mapKey, absoluteFilePath) ==
    SetKey(fileMap, mapKey,
           <<absoluteFilePath>>
           \o (IF HasKey(fileMap, mapKey) THEN GetKey(fileMap, mapKey) ELSE <<>>))

\* Mutation of AddPath: a path the key already holds is not added again.
AddPathOnce(fileMap, mapKey, absoluteFilePath) ==
    IF /\ HasKey(fileMap, mapKey)
       /\ \E j \in 1..Len(GetKey(fileMap, mapKey)) :
             GetKey(fileMap, mapKey)[j] = absoluteFilePath
    THEN fileMap
    ELSE SetKey(fileMap, mapKey,
                (IF HasKey(fileMap, mapKey) THEN GetKey(fileMap, mapKey) ELSE <<>>)
                \o <<absoluteFilePath>>)

\* The 'add' branch of processWatcherEvent.
AddPath(fileMap, mapKey, absoluteFilePath) ==
    SetKey(fileMap, mapKey,
           (IF HasKey(fileMap, mapKey) THEN GetKey(fileMap, mapKey) ELSE <<>>)
           \o <<absoluteFilePath>>)

\* Mutation of UnlinkPath: the emptied key is not deleted.
UnlinkPathKeepsKey(fileMap, mapKey, absoluteFilePath) ==
    SetKey(fileMap, mapKey,
           SelectSeq(GetKey(fileMap, mapKey), LAMBDA val : val # absoluteFilePath))

\* Mutation of UnlinkPath: the key is deleted whatever it still holds.
UnlinkPathDeletesKey(fileMap, mapKey, absoluteFilePath) ==
    DeleteKey(fileMap, mapKey)

\* Mutation of UnlinkPath: the path goes, and with it whatever follows it.
UnlinkPathTruncates(fileMap, mapKey, absoluteFilePath) ==
    LET vals == GetKey(fileMap, mapKey)
        hits == {j \in 1..Len(vals) : vals[j] = absoluteFilePath}
        first == IF hits = {} THEN Len(vals) + 1
                 ELSE CHOOSE j \in hits : \A j2 \in hits : j <= j2
        kept == SubSeq(vals, 1, first - 1)
    IN  IF kept = <<>>
        THEN DeleteKey(fileMap, mapKey)
        ELSE SetKey(fileMap, mapKey, kept)

\* The 'unlink' branch of processWatcherEvent where fileMap[mapKey] exists.
UnlinkPath(fileMap, mapKey, absoluteFilePath) ==
    LET filtered == SelectSeq(GetKey(fileMap, mapKey),
                              LAMBDA val : val # absoluteFilePath)
    IN  IF filtered = <<>>
        THEN DeleteKey(SetKey(fileMap, mapKey, filtered), mapKey)
        ELSE SetKey(fileMap, mapKey, filtered)

\* The synchronous part of processWatcherEvent up to the write: the fileMap it
\* leaves and whether it threw (fileMap[mapKey] is undefined on an unlink of an
\* absent key, and undefined.filter throws a TypeError before any assignment).
ProcessWatcherEvent(evt, absoluteFilePath, fileMap, aliasArray) ==
    LET mapKey == MapKey(absoluteFilePath, aliasArray)
    IN  IF evt = "add"
        THEN [fileMap |-> AddPath(fileMap, mapKey, absoluteFilePath), threw |-> FALSE]
        ELSE IF ~HasKey(fileMap, mapKey)
        THEN [fileMap |-> fileMap, threw |-> TRUE]
        ELSE [fileMap |-> UnlinkPath(fileMap, mapKey, absoluteFilePath),
              threw |-> FALSE]

\* header.length of logMultipleModuleWarnings:
\* ' *** MULTIPLE MODULES FOUND *** '.
HeaderLength == 32
\* The length of 'paths are associated with the module'.
MessageLength == 36
\* The length of '(← using)'.
SuffixLength == 9

\* The number of decimal digits of a count (String(absolutePaths.length)).
DigitsOf(n) == IF n < 10 THEN 1 ELSE IF n < 100 THEN 2 ELSE 3

\* One line of text: what it says and its length without the ANSI colours.
WarnLine(kind, name, count, path, using, length) ==
    [kind |-> kind, name |-> name, count |-> count, path |-> path,
     using |-> using, length |-> length]

EmptyLine == WarnLine("empty", <<>>, 0, <<>>, FALSE, 0)

\* console.warn() without arguments.
BlankCall == WarnLine("blank", <<>>, 0, <<>>, FALSE, 0)

\* The lines pushed for one duplicate: `${count} paths are associated with the
\* module ${name}:`, one line per path (two spaces, the relative path, and the
\* suffix on the first), and an empty line.
DuplicateLines(dup) ==
    <<WarnLine("count", dup.key, Len(dup.vals), <<>>, FALSE,
               DigitsOf(Len(dup.vals)) + 1 + MessageLength + 1 + Len(dup.key) + 1)>>
    \o [j \in 1..Len(dup.vals) |->
           WarnLine("path", dup.key, 0, PathRelative(DIR_NAME, dup.vals[j]), j = 1,
                    2 + Len(PathRelative(DIR_NAME, dup.vals[j]))
                    + (IF j = 1 THEN SuffixLength ELSE 0))]
    \o <<EmptyLine>>

\* textArr after the forEach over the duplicates.
RECURSIVE TextArr(_)
TextArr(duplicates) ==
    IF duplicates = <<>> THEN <<>>
    ELSE DuplicateLines(duplicates[1]) \o TextArr(Tail(duplicates))

\* getMaxLengthNoAnsi
RECURSIVE GetMaxLengthNoAnsi(_)
GetMaxLengthNoAnsi(textArr) ==
    IF textArr = <<>> THEN 0
    ELSE LET rest == GetMaxLengthNoAnsi(Tail(textArr))
         IN  IF textArr[1].length > rest THEN textArr[1].length ELSE rest

\* frameText: a border above and below the lines.
FrameText(textArr) ==
    LET maxLength == GetMaxLengthNoAnsi(textArr)
    IN  <<WarnLine("border", <<>>, 0, <<>>, FALSE, maxLength + 4)>>
        \o [i \in 1..Len(textArr) |-> [textArr[i] EXCEPT !.length = maxLength + 4]]
        \o <<WarnLine("border", <<>>, 0, <<>>, FALSE, maxLength + 4)>>

\* logMultipleModuleWarnings: the console.warn calls it makes, and whether it
\* threw. After the first console.warn() the header is centred over the longest
\* line with ' '.repeat(padStart); String.prototype.repeat throws a RangeError
\* on a negative count, which is what padStart is when no line is as long as
\* the header (with no duplicates there is no line at all).
LogMultipleModuleWarnings(duplicates) ==
    LET textArr == TextArr(duplicates)
        maxLength == GetMaxLengthNoAnsi(textArr)
        padStart == (maxLength - HeaderLength) \div 2
        header == WarnLine("header", <<>>, 0, <<>>, FALSE,
                           IF maxLength > HeaderLength THEN maxLength
                           ELSE HeaderLength)
    IN  IF padStart < 0
        THEN [console |-> <<BlankCall>>, threw |-> TRUE]
        ELSE [console |-> <<BlankCall>>
                          \o FrameText(<<EmptyLine, header, EmptyLine>> \o textArr)
                          \o <<BlankCall>>,
              threw |-> FALSE]

\* Mutation of CreateViteAliasMap: the last path of a key is its replacement.
CreateViteAliasMapLastWins(fileMap) ==
    LET entries == ObjectEntries(fileMap)
        duplicates == SelectSeq(entries, LAMBDA e : Len(e.vals) > 1)
    IN  [aliasMap |->
            [i \in 1..Len(entries) |->
                [find |-> entries[i].key,
                 replacement |-> IF entries[i].vals = <<>> THEN Undefined
                                 ELSE entries[i].vals[Len(entries[i].vals)]]],
         duplicates |-> duplicates,
         console |-> LogMultipleModuleWarnings(duplicates).console,
         threw |-> LogMultipleModuleWarnings(duplicates).threw]

\* Mutation of CreateViteAliasMap: every key is reported as a duplicate.
CreateViteAliasMapReportsAll(fileMap) ==
    LET entries == ObjectEntries(fileMap)
        duplicates == entries
    IN  [aliasMap |->
            [i \in 1..Len(entries) |->
                [find |-> entries[i].key,
                 replacement |-> IF entries[i].vals = <<>> THEN Undefined
                                 ELSE entries[i].vals[1]]],
         duplicates |-> duplicates,
         console |-> LogMultipleModuleWarnings(duplicates).console,
         threw |-> LogMultipleModuleWarnings(duplicates).threw]

\* createViteAliasMap: one {find, replacement} per entry of Object.entries, the
\* duplicates handed to logMultipleModuleWarnings, what that call printed and
\* whether it threw; when it threw, createViteAliasMap throws and its caller
\* gets no alias list.
CreateViteAliasMap(fileMap) ==
    LET entries == ObjectEntries(fileMap)
        duplicates == SelectSeq(entries, LAMBDA e : Len(e.vals) > 1)
    IN  [aliasMap |->
            [i \in 1..Len(entries) |->
                [find |-> entries[i].key,
                 replacement |-> IF entries[i].vals = <<>> THEN Undefined
                                 ELSE entries[i].vals[1]]],
         duplicates |-> duplicates,
         console |-> LogMultipleModuleWarnings(duplicates).console,
         threw |-> LogMultipleModuleWarnings(duplicates).threw]

\* ------------------------------------------------------ tsconfig.paths.json

\* The comparison function of the sort in writeTsConfigPathsJSON is negative:
\* a.toLocaleLowerCase() < b.toLowerCase().
NameBefore(a, b) == StrLess(ToLocaleLowerCase(a), ToLowerCase(b))

\* Array.prototype.sort as V8 runs it on an array shorter than 64 (the
\* comparison function is not a consistent one in every locale, and then the
\* order is the one the algorithm happens to give): the initial run is found
\* and, when descending, reversed; the rest is inserted by binary search. Both
\* steps ask only whether the comparison function is negative.

\* The end of the initial run: the elements go on while each compares to its
\* predecessor as the second did to the first.
RECURSIVE RunLength(_, _, _)
RunLength(names, isDescending, idx) ==
    IF idx > Len(names) THEN Len(names)
    ELSE IF NameBefore(names[idx], names[idx - 1]) # isDescending THEN idx - 1
    ELSE RunLength(names, isDescending, idx + 1)

CountAndMakeRun(names) ==
    LET isDescending == NameBefore(names[2], names[1])
        runLength == RunLength(names, isDescending, 3)
    IN  [runLength |-> runLength,
         names |-> IF isDescending
                   THEN [i \in 1..Len(names) |->
                            IF i <= runLength THEN names[runLength + 1 - i]
                            ELSE names[i]]
                   ELSE names]

\* The place of pivot among names[left .. right - 1].
RECURSIVE BinarySearch(_, _, _, _)
BinarySearch(names, pivot, left, right) ==
    IF left >= right THEN left
    ELSE LET mid == left + ((right - left) \div 2)
         IN  IF NameBefore(pivot, names[mid])
             THEN BinarySearch(names, pivot, left, mid)
             ELSE BinarySearch(names, pivot, mid + 1, right)

RECURSIVE BinaryInsertionSort(_, _)
BinaryInsertionSort(names, start) ==
    IF start > Len(names) THEN names
    ELSE LET pivot == names[start]
             left == BinarySearch(names, pivot, 1, start)
         IN  BinaryInsertionSort(
                 SubSeq(names, 1, left - 1) \o <<pivot>>
                 \o SubSeq(names, left, start - 1)
                 \o SubSeq(names, start + 1, Len(names)),
                 start + 1)

\* Object.keys(fileMap).sort(...)
SortImportNames(names) ==
    IF Len(names) < 2 THEN names
    ELSE LET run == CountAndMakeRun(names)
         IN  BinaryInsertionSort(run.names, run.runLength + 1)

\* importNames of writeTsConfigPathsJSON.
ImportNames(fileMap) == SortImportNames(ObjectKeys(fileMap))

\* The text between the quotes of one array element: `.${path.sep}${relative}`.
RelativePathText(pathStr) == <<".", SEP>> \o PathRelative(DIR_NAME, pathStr)

\* One line of the "paths" section: `"name": ["v1", "v2"]` and its comma. The
\* name and the values are the characters written between the quotes, as they
\* are: the code escapes nothing.
PathsLine(fileMap, importNames, i) ==
    LET values == GetKey(fileMap, importNames[i])
    IN  [name |-> importNames[i],
         values |-> [j \in 1..Len(values) |-> RelativePathText(values[j])],
         comma |-> i # Len(importNames)]

\* contents of writeTsConfigPathsJSON: the fixed frame around the lines.
TsConfigPathsContents(fileMap) ==
    LET importNames == ImportNames(fileMap)
    IN  [kind |-> "tsconfig",
         lines |-> [i \in 1..Len(importNames) |-> PathsLine(fileMap, importNames, i)]]

\* Characters written between two quotes are a JSON string literal only when
\* none of them is a quote.
IsJsonStringText(text) == \A i \in 1..Len(text) : text[i] # DQUOTE

\* JSON.parse accepts the text: every literal is one, and a comma follows every
\* line but the last.
JsonParses(contents) ==
    \A i \in 1..Len(contents.lines) :
        /\ IsJsonStringText(contents.lines[i].name)
        /\ \A j \in 1..Len(contents.lines[i].values) :
              IsJsonStringText(contents.lines[i].values[j])
        /\ contents.lines[i].comma = (i # Len(contents.lines))

\* The object JSON.parse builds for compilerOptions.paths: the properties are
\* created in the order of the text.
RECURSIVE JsonPathsObject(_)
JsonPathsObject(lines) ==
    IF lines = <<>> THEN <<>>
    ELSE SetKey(JsonPathsObject(SubSeq(lines, 1, Len(lines) - 1)),
                lines[Len(lines)].name, lines[Len(lines)].values)

\* The reduce of tsConfigPathsToFileMap over Object.entries(pathsObj).
RECURSIVE ResolveEntries(_)
ResolveEntries(entries) ==
    IF entries = <<>> THEN <<>>
    ELSE SetKey(ResolveEntries(SubSeq(entries, 1, Len(entries) - 1)),
                entries[Len(entries)].key,
                [j \in 1..Len(entries[Len(entries)].vals) |->
                    PathResolve(DIR_NAME, entries[Len(entries)].vals[j])])

\* tsConfigPathsToFileMap: the fileMap, or threw when JSON.parse throws a
\* SyntaxError or the parsed value has no compilerOptions ("{}": reading .paths
\* of undefined throws a TypeError).
TsConfigPathsToFileMap(contents) ==
    IF contents.kind # "tsconfig" \/ ~JsonParses(contents)
    THEN [fileMap |-> <<>>, threw |-> TRUE]
    ELSE [fileMap |-> ResolveEntries(ObjectEntries(JsonPathsObject(contents.lines))),
          threw |-> FALSE]

\* The then-callback of the warm branch on the contents read: the fileMap
\* parsed, the projection of it, and whether either threw.
WarmStart(contents) ==
    LET parsed == TsConfigPathsToFileMap(contents)
        made == CreateViteAliasMap(parsed.fileMap)
    IN  [fileMap |-> parsed.fileMap,
         aliasMap |-> made.aliasMap,
         duplicates |-> made.duplicates,
         threw |-> parsed.threw \/ made.threw]

\* --------------------------------------------------------------------- state

VARIABLES
    env,        \* process.env[INITIALIZED_FLAG] is set
    disk,       \* the contents of tsconfig.paths.json
    boot,       \* the invocations of createAliasMap, by number; hist is the
                \* log of what its callbacks were handed, in order, and writes
                \* the log of the writeFile calls its watcher made
    nboot,      \* how many invocations were made
    io,         \* the readFile / writeFile calls in flight
    nio,        \* how many such calls were made
    nevents,    \* how many watcher events were delivered
    unhandled,  \* how many rejections and exceptions nothing handles
    alive       \* the process runs

vars == <<locale, env, disk, boot, nboot, io, nio, nevents, unhandled, alive>>

NoContents == [kind |-> "none", lines |-> <<>>]

\* An invocation not made yet.
IdleBoot ==
    [mode |-> "idle", aliasArray |-> <<>>, fileMap |-> <<>>, ready |-> FALSE,
     aliasMap |-> <<>>, result |-> "pending", console |-> <<>>, hist |-> <<>>,
     projection |-> "none", writes |-> <<>>, flagReads |-> 0, flagWrites |-> 0]

Init ==
    /\ locale \in Locales
    /\ env = FALSE
    /\ disk = EnsureContents
    /\ boot = [i \in 1..MaxBoot |-> IdleBoot]
    /\ nboot = 0
    /\ io = {}
    /\ nio = 0
    /\ nevents = 0
    /\ unhandled = 0
    /\ alive = TRUE

\* getIsInitialized
GetIsInitialized == env

\* Mutation of WriteFileCall: the contents are those of the fileMap as the
\* invocation held it before the handler ran.
WriteFileCallOfOldFileMap(owner, final, fileMap) ==
    [id |-> nio + 1, op |-> "write", owner |-> owner, final |-> final,
     contents |-> TsConfigPathsContents(boot[owner].fileMap)]

\* writeFile(TS_PATHS_CONFIG_LOCATION, contents): the call in flight.
WriteFileCall(owner, final, fileMap) ==
    [id |-> nio + 1, op |-> "write", owner |-> owner, final |-> final,
     contents |-> TsConfigPathsContents(fileMap)]

\* readFile(TS_PATHS_CONFIG_LOCATION): the call in flight.
ReadFileCall(owner) ==
    [id |-> nio + 1, op |-> "read", owner |-> owner, final |-> FALSE,
     contents |-> NoContents]

\* A rejected promise with no handler: Node reports it and, by its
\* --unhandled-rejections mode, goes on (warn) or ends the process (throw).
UnhandledRejection ==
    /\ unhandled' = unhandled + 1
    /\ alive' \in BOOLEAN

\* An exception that leaves a listener of the watcher: it ends the process
\* unless the host has an 'uncaughtException' handler.
UncaughtException ==
    /\ unhandled' = unhandled + 1
    /\ alive' \in BOOLEAN

\* An entry of the log of an invocation.
HistEntry(evt, path, threw) == [evt |-> evt, path |-> path, threw |-> threw]

\* createAliasMap(arr) up to the return of the promise: the flag is read once;
\* the warm branch starts the read, the cold branch sets up the watcher over an
\* empty fileMap.
CreateAliasMap(arr) ==
    /\ alive
    /\ nboot < MaxBoot
    /\ nboot' = nboot + 1
    /\ IF GetIsInitialized
       THEN /\ boot' = [boot EXCEPT ![nboot + 1] =
                           [IdleBoot EXCEPT !.mode = "warm",
                                            !.flagReads = 1,
                                            !.aliasArray = ResolveAliasArray(arr)]]
            /\ io' = io \cup {ReadFileCall(nboot + 1)}
            /\ nio' = nio + 1
       ELSE /\ boot' = [boot EXCEPT ![nboot + 1] =
                           [IdleBoot EXCEPT !.mode = "cold",
                                            !.flagReads = 1,
                                            !.aliasArray = ResolveAliasArray(arr)]]
            /\ UNCHANGED <<io, nio>>
    /\ UNCHANGED <<locale, env, disk, nevents, unhandled, alive>>

\* Mutation of WatcherEvent: once the watcher has signalled ready the handlers
\* are called and do nothing.
WatcherEventUntilReady(i, evt, absoluteFilePath) ==
    /\ alive
    /\ boot[i].mode = "cold"
    /\ absoluteFilePath \in Watched(boot[i].aliasArray)
    /\ nevents' = nevents + 1
    /\ LET r == IF boot[i].ready
                THEN [fileMap |-> boot[i].fileMap, threw |-> FALSE]
                ELSE ProcessWatcherEvent(evt, absoluteFilePath, boot[i].fileMap,
                                         boot[i].aliasArray)
           h == Append(boot[i].hist, HistEntry(evt, absoluteFilePath, r.threw))
           w == WriteFileCall(i, FALSE, r.fileMap)
       IN  IF r.threw
           THEN /\ boot' = [boot EXCEPT ![i].hist = h]
                /\ UnhandledRejection
                /\ UNCHANGED <<io, nio>>
           ELSE IF boot[i].ready
           THEN /\ boot' = [boot EXCEPT ![i].hist = h]
                /\ UNCHANGED <<io, nio, unhandled, alive>>
           ELSE /\ boot' = [boot EXCEPT ![i].fileMap = r.fileMap, ![i].hist = h,
                                        ![i].writes = Append(boot[i].writes, w)]
                /\ io' = io \cup {w}
                /\ nio' = nio + 1
                /\ UNCHANGED <<unhandled, alive>>
    /\ UNCHANGED <<locale, env, disk, nboot>>

\* The 'add' / 'unlink' handler of the watcher of invocation i: the whole of
\* processWatcherEvent, which runs to its writeFile call without suspending.
\* Its promise is dropped by the handler, so a throw is an unhandled rejection.
WatcherEvent(i, evt, absoluteFilePath) ==
    /\ alive
    /\ boot[i].mode = "cold"
    /\ absoluteFilePath \in Watched(boot[i].aliasArray)
    /\ nevents' = nevents + 1
    /\ LET r == ProcessWatcherEvent(evt, absoluteFilePath, boot[i].fileMap,
                                    boot[i].aliasArray)
           h == Append(boot[i].hist, HistEntry(evt, absoluteFilePath, r.threw))
           w == WriteFileCall(i, FALSE, r.fileMap)
       IN  IF r.threw
           THEN /\ boot' = [boot EXCEPT ![i].hist = h]
                /\ UnhandledRejection
                /\ UNCHANGED <<io, nio>>
           ELSE /\ boot' = [boot EXCEPT ![i].fileMap = r.fileMap, ![i].hist = h,
                                        ![i].writes = Append(boot[i].writes, w)]
                /\ io' = io \cup {w}
                /\ nio' = nio + 1
                /\ UNCHANGED <<unhandled, alive>>
    /\ UNCHANGED <<locale, env, disk, nboot>>

WatcherAdd(i, absoluteFilePath) == WatcherEvent(i, "add", absoluteFilePath)

WatcherUnlink(i, relativeFilePath) == WatcherEvent(i, "unlink", relativeFilePath)

\* Mutation of WatcherReady: the flag is set and the promise resolved at once,
\* without waiting for the final write.
WatcherReadyResolvesEarly(i) ==
    /\ alive
    /\ boot[i].mode = "cold"
    /\ ~boot[i].ready
    /\ LET made == CreateViteAliasMap(boot[i].fileMap)
           h == Append(boot[i].hist, HistEntry("ready", <<>>, FALSE))
           w == WriteFileCall(i, TRUE, boot[i].fileMap)
       IN  IF made.threw
           THEN /\ boot' = [boot EXCEPT
                               ![i].ready = TRUE,
                               ![i].hist = h,
                               ![i].projection = "threw",
                               ![i].console = boot[i].console \o made.console]
                /\ UncaughtException
                /\ UNCHANGED <<env, io, nio>>
           ELSE /\ boot' = [boot EXCEPT
                               ![i].ready = TRUE,
                               ![i].hist = h,
                               ![i].projection = "returned",
                               ![i].aliasMap = made.aliasMap,
                               ![i].console = boot[i].console \o made.console,
                               ![i].writes = Append(boot[i].writes, w),
                               ![i].flagWrites = boot[i].flagWrites + 1,
                               ![i].result = "resolved"]
                /\ env' = TRUE
                /\ io' = io \cup {w}
                /\ nio' = nio + 1
                /\ UNCHANGED <<unhandled, alive>>
    /\ UNCHANGED <<locale, disk, nboot, nevents>>

\* Mutation of WatcherReady: the watcher is set up whatever the branch, so a
\* warm invocation is handed the ready signal too.
WatcherReadyAnyMode(i) ==
    /\ alive
    /\ boot[i].mode \in {"cold", "warm"}
    /\ ~boot[i].ready
    /\ LET made == CreateViteAliasMap(boot[i].fileMap)
           h == Append(boot[i].hist, HistEntry("ready", <<>>, FALSE))
           w == WriteFileCall(i, TRUE, boot[i].fileMap)
       IN  IF made.threw
           THEN /\ boot' = [boot EXCEPT
                               ![i].ready = TRUE,
                               ![i].hist = h,
                               ![i].projection = "threw",
                               ![i].console = boot[i].console \o made.console]
                /\ UncaughtException
                /\ UNCHANGED <<io, nio>>
           ELSE /\ boot' = [boot EXCEPT
                               ![i].ready = TRUE,
                               ![i].hist = h,
                               ![i].projection = "returned",
                               ![i].aliasMap = made.aliasMap,
                               ![i].console = boot[i].console \o made.console,
                               ![i].writes = Append(boot[i].writes, w)]
                /\ io' = io \cup {w}
                /\ nio' = nio + 1
                /\ UNCHANGED <<unhandled, alive>>
    /\ UNCHANGED <<locale, env, disk, nboot, nevents>>

\* The 'ready' handler of the watcher of invocation i: the projection and its
\* warning, then the start of the final write. When createViteAliasMap throws,
\* the exception leaves the handler before the write is started: nothing will
\* set the flag or resolve the promise of this invocation.
WatcherReady(i) ==
    /\ alive
    /\ boot[i].mode = "cold"
    /\ ~boot[i].ready
    /\ LET made == CreateViteAliasMap(boot[i].fileMap)
           h == Append(boot[i].hist, HistEntry("ready", <<>>, FALSE))
           w == WriteFileCall(i, TRUE, boot[i].fileMap)
       IN  IF made.threw
           THEN /\ boot' = [boot EXCEPT
                               ![i].ready = TRUE,
                               ![i].hist = h,
                               ![i].projection = "threw",
                               ![i].console = boot[i].console \o made.console]
                /\ UncaughtException
                /\ UNCHANGED <<io, nio>>
           ELSE /\ boot' = [boot EXCEPT
                               ![i].ready = TRUE,
                               ![i].hist = h,
                               ![i].projection = "returned",
                               ![i].aliasMap = made.aliasMap,
                               ![i].console = boot[i].console \o made.console,
                               ![i].writes = Append(boot[i].writes, w)]
                /\ io' = io \cup {w}
                /\ nio' = nio + 1
                /\ UNCHANGED <<unhandled, alive>>
    /\ UNCHANGED <<locale, env, disk, nboot, nevents>>

\* A writeFile call completes: the file holds its contents. The calls in flight
\* complete in any order. The final write's then-callback sets the flag and
\* resolves the promise of its invocation.
WriteFileDone(w) ==
    /\ alive
    /\ w \in io
    /\ w.op = "write"
    /\ io' = io \ {w}
    /\ disk' = w.contents
    /\ IF w.final
       THEN /\ env' = TRUE
            /\ boot' = [boot EXCEPT
                           ![w.owner].result = "resolved",
                           ![w.owner].flagWrites = boot[w.owner].flagWrites + 1]
       ELSE UNCHANGED <<env, boot>>
    /\ UNCHANGED <<locale, nboot, nio, nevents, unhandled, alive>>

\* A writeFile call fails (the file cannot be opened for writing): its promise
\* is rejected and the file is as it was. That promise is the one
\* processWatcherEvent returned, which the handler dropped, or the one the
\* 'ready' handler called then() on without a rejection handler: in both cases
\* nothing handles the rejection, and after a failed final write nothing sets
\* the flag or settles the promise of the invocation.
WriteFileFail(w) ==
    /\ alive
    /\ w \in io
    /\ w.op = "write"
    /\ io' = io \ {w}
    /\ boot' = [boot EXCEPT
                   ![w.owner].hist =
                       Append(boot[w.owner].hist,
                              HistEntry(IF w.final THEN "finalWriteFailed"
                                        ELSE "writeFailed", <<>>, TRUE))]
    /\ UnhandledRejection
    /\ UNCHANGED <<locale, env, disk, nboot, nio, nevents>>

\* Mutation of ReadFileDone: the warm branch sets the flag again when it
\* resolves.
ReadFileDoneSetsFlag(r) ==
    /\ alive
    /\ r \in io
    /\ r.op = "read"
    /\ io' = io \ {r}
    /\ LET parsed == TsConfigPathsToFileMap(disk)
           made == CreateViteAliasMap(parsed.fileMap)
           h == Append(boot[r.owner].hist, HistEntry("read", <<>>, parsed.threw))
       IN  IF parsed.threw
           THEN /\ UnhandledRejection
                /\ boot' = [boot EXCEPT ![r.owner].hist = h]
           ELSE IF made.threw
           THEN /\ UnhandledRejection
                /\ boot' = [boot EXCEPT
                               ![r.owner].hist = h,
                               ![r.owner].fileMap = parsed.fileMap,
                               ![r.owner].projection = "threw",
                               ![r.owner].console =
                                   boot[r.owner].console \o made.console]
           ELSE /\ boot' = [boot EXCEPT
                               ![r.owner].hist = h,
                               ![r.owner].fileMap = parsed.fileMap,
                               ![r.owner].projection = "returned",
                               ![r.owner].aliasMap = made.aliasMap,
                               ![r.owner].console =
                                   boot[r.owner].console \o made.console,
                               ![r.owner].flagWrites =
                                   boot[r.owner].flagWrites + 1,
                               ![r.owner].result = "resolved"]
                /\ UNCHANGED <<unhandled, alive>>
    /\ UNCHANGED <<locale, env, disk, nboot, nio, nevents>>

\* The readFile call of a warm invocation completes: its then-callback parses
\* the contents, projects them and resolves. A throw inside the callback (of
\* tsConfigPathsToFileMap, or of createViteAliasMap after the assignment of
\* fileMap) rejects the promise of then(), which nothing handles; the promise
\* of the invocation has no reject path and stays pending.
ReadFileDone(r) ==
    /\ alive
    /\ r \in io
    /\ r.op = "read"
    /\ io' = io \ {r}
    /\ LET parsed == TsConfigPathsToFileMap(disk)
           made == CreateViteAliasMap(parsed.fileMap)
           h == Append(boot[r.owner].hist, HistEntry("read", <<>>, parsed.threw))
       IN  IF parsed.threw
           THEN /\ UnhandledRejection
                /\ boot' = [boot EXCEPT ![r.owner].hist = h]
           ELSE IF made.threw
           THEN /\ UnhandledRejection
                /\ boot' = [boot EXCEPT
                               ![r.owner].hist = h,
                               ![r.owner].fileMap = parsed.fileMap,
                               ![r.owner].projection = "threw",
                               ![r.owner].console =
                                   boot[r.owner].console \o made.console]
           ELSE /\ boot' = [boot EXCEPT
                               ![r.owner].hist = h,
                               ![r.owner].fileMap = parsed.fileMap,
                               ![r.owner].projection = "returned",
                               ![r.owner].aliasMap = made.aliasMap,
                               ![r.owner].console =
                                   boot[r.owner].console \o made.console,
                               ![r.owner].result = "resolved"]
                /\ UNCHANGED <<unhandled, alive>>
    /\ UNCHANGED <<locale, env, disk, nboot, nio, nevents>>

\* The readFile call of a warm invocation fails: the promise of then() is
\* rejected and nothing handles it; the promise of the invocation stays
\* pending.
ReadFileFail(r) ==
    /\ alive
    /\ r \in io
    /\ r.op = "read"
    /\ io' = io \ {r}
    /\ boot' = [boot EXCEPT
                   ![r.owner].hist =
                       Append(boot[r.owner].hist,
                              HistEntry("readFailed", <<>>, TRUE))]
    /\ UnhandledRejection
    /\ UNCHANGED <<locale, env, disk, nboot, nio, nevents>>

\* A process lifetime: any number of invocations, each cold start with its
\* own watcher, within the bounds.
Next ==
    \/ \E arr \in ArrInputs : CreateAliasMap(arr)
    \/ \E i \in 1..MaxBoot, p \in ProcessPaths :
          nevents < MaxEvents /\ WatcherAdd(i, p)
    \/ \E i \in 1..MaxBoot, p \in ProcessPaths :
          nevents < MaxEvents /\ WatcherUnlink(i, p)
    \/ \E i \in 1..MaxBoot : WatcherReady(i)
    \/ \E w \in io : WriteFileDone(w)
    \/ \E r \in io : ReadFileDone(r)

Spec == Init /\ [][Next]_vars

\* A process lifetime in which the reads and writes of the file may fail.
FaultNext ==
    \/ \E arr \in ArrInputs : CreateAliasMap(arr)
    \/ \E i \in 1..MaxBoot, p \in ProcessPaths :
          nevents < MaxEvents /\ WatcherAdd(i, p)
    \/ \E i \in 1..MaxBoot, p \in ProcessPaths :
          nevents < MaxEvents /\ WatcherUnlink(i, p)
    \/ \E i \in 1..MaxBoot : WatcherReady(i)
    \/ \E w \in io : WriteFileDone(w)
    \/ \E r \in io : ReadFileDone(r)
    \/ \E w \in io : WriteFileFail(w)
    \/ \E r \in io : ReadFileFail(r)

SpecFault == Init /\ [][FaultNext]_vars

\* One cold start and its watcher, the writes completing in any order.
ColdNext ==
    \/ \E arr \in ArrInputs : nboot = 0 /\ CreateAliasMap(arr)
    \/ \E p \in FilePaths : nevents < MaxColdEvents /\ WatcherAdd(1, p)
    \/ \E p \in FilePaths : nevents < MaxColdEvents /\ WatcherUnlink(1, p)
    \/ WatcherReady(1)
    \/ \E w \in io : WriteFileDone(w)

SpecCold == Init /\ [][ColdNext]_vars

\* One cold start and its watcher, the writes completing or failing.
ColdFaultNext ==
    \/ \E arr \in ArrInputs : nboot = 0 /\ CreateAliasMap(arr)
    \/ \E p \in ProcessPaths : nevents < MaxFaultEvents /\ WatcherAdd(1, p)
    \/ \E p \in ProcessPaths : nevents < MaxFaultEvents /\ WatcherUnlink(1, p)
    \/ WatcherReady(1)
    \/ \E w \in io : WriteFileDone(w)
    \/ \E w \in io : WriteFileFail(w)

SpecColdFault == Init /\ [][ColdFaultNext]_vars

\* One cold start and its watcher over a longer run of events, each write
\* completing before the watcher's next callback. The fileMap of a cold start
\* is read and written by the watcher's callbacks alone, so the fileMaps and
\* logs reached are those of any schedule of the writes.
RegistryNext ==
    \/ \E arr \in ArrInputs : nboot = 0 /\ CreateAliasMap(arr)
    \/ \E p \in FilePaths :
          io = {} /\ nevents < MaxRegistryEvents /\ WatcherAdd(1, p)
    \/ \E p \in FilePaths :
          io = {} /\ nevents < MaxRegistryEvents /\ WatcherUnlink(1, p)
    \/ io = {} /\ WatcherReady(1)
    \/ \E w \in io : WriteFileDone(w)

SpecRegistry == Init /\ [][RegistryNext]_vars

\* The same over the tree of names that differ in case.
NamesNext ==
    \/ \E arr \in ArrInputs : nboot = 0 /\ CreateAliasMap(arr)
    \/ \E p \in NamePaths :
          io = {} /\ nevents < MaxNameEvents /\ WatcherAdd(1, p)
    \/ \E p \in NamePaths :
          io = {} /\ nevents < MaxNameEvents /\ WatcherUnlink(1, p)
    \/ io = {} /\ WatcherReady(1)
    \/ \E w \in io : WriteFileDone(w)

SpecNames == Init /\ [][NamesNext]_vars

\* One cold start over each of the setups of two roots, as SpecRegistry.
SetupNext ==
    \/ \E arr \in SetupInputs : nboot = 0 /\ CreateAliasMap(arr)
    \/ \E p \in SetupPaths :
          io = {} /\ nevents < MaxSetupEvents /\ WatcherAdd(1, p)
    \/ \E p \in SetupPaths :
          io = {} /\ nevents < MaxSetupEvents /\ WatcherUnlink(1, p)
    \/ io = {} /\ WatcherReady(1)
    \/ \E w \in io : WriteFileDone(w)

SpecSetup == Init /\ [][SetupNext]_vars

\* Invocations that overlap: each cold start has its own watcher over the same
\* tree, and each watcher reports the files of the tree to its own handlers.
OverlapNext ==
    \/ \E arr \in ArrInputs : CreateAliasMap(arr)
    \/ \E i \in 1..MaxBoot, p \in OverlapPaths :
          /\ io = {}
          /\ nevents < MaxOverlapEvents
          /\ p \notin PathsOfFileMap(boot[i].fileMap)
          /\ WatcherAdd(i, p)
    \/ \E i \in 1..MaxBoot : io = {} /\ WatcherReady(i)
    \/ \E w \in io : WriteFileDone(w)
    \/ \E r \in io : ReadFileDone(r)

SpecOverlap == Init /\ [][OverlapNext]_vars

\* -------------------------------------------------------------------- claims

\* The paths a fileMap holds, under any key.
PathsOf(fileMap) ==
    UNION {{fileMap[i].vals[j] : j \in 1..Len(fileMap[i].vals)} : i \in 1..Len(fileMap)}

KeysOf(fileMap) == {fileMap[i].key : i \in 1..Len(fileMap)}

\* The add / unlink entries of a log, in order.
IsMutation(e) == e.evt \in {"add", "unlink"}

Mutations(hist) == SelectSeq(hist, IsMutation)

\* The entries of a log before its 'ready' entry (all of them when it has none).
RECURSIVE BeforeReady(_)
BeforeReady(hist) ==
    IF hist = <<>> \/ hist[1].evt = "ready" THEN <<>>
    ELSE <<hist[1]>> \o BeforeReady(Tail(hist))

\* The fileMap a cold start holds after the add / unlink events of a log.
RECURSIVE ReplayLog(_, _)
ReplayLog(muts, aliasArray) ==
    IF muts = <<>> THEN <<>>
    ELSE ProcessWatcherEvent(muts[Len(muts)].evt, muts[Len(muts)].path,
                             ReplayLog(SubSeq(muts, 1, Len(muts) - 1), aliasArray),
                             aliasArray).fileMap

\* The paths added under key k that no later unlink names, in the order of
\* their add events, from entry i of the log on.
RECURSIVE SurvivingAdds(_, _, _, _)
SurvivingAdds(muts, k, aliasArray, i) ==
    IF i > Len(muts) THEN <<>>
    ELSE (IF /\ muts[i].evt = "add"
             /\ MapKey(muts[i].path, aliasArray) = k
             /\ \A j \in (i + 1)..Len(muts) :
                   ~(muts[j].evt = "unlink" /\ muts[j].path = muts[i].path)
          THEN <<muts[i].path>>
          ELSE <<>>)
         \o SurvivingAdds(muts, k, aliasArray, i + 1)

\* The replacement the alias list gives for a key.
ReplacementOf(aliasMap, k) ==
    aliasMap[CHOOSE j \in 1..Len(aliasMap) : aliasMap[j].find = k].replacement

ColdBoots == {i \in 1..MaxBoot : boot[i].mode = "cold"}

WarmBoots == {i \in 1..MaxBoot : boot[i].mode = "warm"}

\* C1: the persisted file reflects the latest Registry: once a cold start has
\* started a write and no write is in flight, the contents of the file are the
\* serialization of the fileMap in memory.
C1_PersistedReflectsRegistry ==
    (boot[1].mode = "cold" /\ nio > 0 /\ io = {})
        => disk = TsConfigPathsContents(boot[1].fileMap)

\* C2: a key is present if and only if its sequence is non-empty: no fileMap
\* holds a key with an empty array, and after an unlink the path it names is
\* gone, so the unlink that removes the last path of a key removes the key.
C2_KeyPresentIffNonEmpty ==
    \A i \in ColdBoots :
        LET fm == boot[i].fileMap
            m == Mutations(boot[i].hist)
        IN  /\ \A e \in 1..Len(fm) : fm[e].vals # <<>>
            /\ (m # <<>> /\ m[Len(m)].evt = "unlink" /\ ~m[Len(m)].threw)
                   => m[Len(m)].path \notin PathsOf(fm)

\* C2 witness: an unlink has just removed the only path of a key, and the key is
\* gone.
C2_Witness ==
    \E i \in ColdBoots :
        LET fm == boot[i].fileMap
            m == Mutations(boot[i].hist)
            n == Len(m)
        IN  /\ n >= 2
            /\ m[n].evt = "unlink" /\ ~m[n].threw
            /\ m[n - 1].evt = "add" /\ m[n - 1].path = m[n].path
            /\ ~HasKey(fm, MapKey(m[n].path, boot[i].aliasArray))
            /\ fm # <<>>

\* add(P) and then unlink(P), as processWatcherEvent does them.
AddThenUnlink(fileMap, P, aliasArray) ==
    ProcessWatcherEvent("unlink", P,
                        ProcessWatcherEvent("add", P, fileMap, aliasArray).fileMap,
                        aliasArray).fileMap

\* C3 as stated: for every reachable fileMap and every path P, add(P) then
\* unlink(P) gives back the fileMap exactly.
C3_AddThenUnlinkRestores ==
    \A i \in ColdBoots :
        \A P \in Watched(boot[i].aliasArray) :
            AddThenUnlink(boot[i].fileMap, P, boot[i].aliasArray) = boot[i].fileMap

\* C3 as amended: for every reachable fileMap and every path P that does not
\* already occur in it, add(P) then unlink(P) gives back the fileMap exactly
\* (keys, their order, and each key's array).
C3_AddThenUnlinkRestoresAbsent ==
    \A i \in ColdBoots :
        \A P \in Watched(boot[i].aliasArray) \ PathsOf(boot[i].fileMap) :
            AddThenUnlink(boot[i].fileMap, P, boot[i].aliasArray) = boot[i].fileMap

\* C3 witness: the watcher has delivered add(P) and then unlink(P) for a path P
\* that was absent while its key was present, and the fileMap is the one before.
C3_Witness ==
    \E i \in ColdBoots :
        LET m == Mutations(boot[i].hist)
            n == Len(m)
            before == ReplayLog(SubSeq(m, 1, n - 2), boot[i].aliasArray)
        IN  /\ n >= 3
            /\ m[n - 1].evt = "add" /\ m[n].evt = "unlink"
            /\ m[n - 1].path = m[n].path
            /\ m[n].path \notin PathsOf(before)
            /\ HasKey(before, MapKey(m[n].path, boot[i].aliasArray))
            /\ boot[i].fileMap = before

C5_ProjectionInInsertionOrder ==
    \A i \in ColdBoots :
        LET fm == boot[i].fileMap
            a == CreateViteAliasMap(fm).aliasMap
        IN  /\ ~CreateViteAliasMap(fm).threw
            /\ Len(a) = Len(fm)
            /\ \A j \in 1..Len(a) :
                  /\ a[j].find = fm[j].key
                  /\ a[j].replacement = fm[j].vals[1]

\* createViteAliasMap throws exactly when no key of the fileMap holds two paths
\* (not a claim of the list; it bounds the failure of C5, C14 and C16).
ProjectionThrowsIffNoDuplicates ==
    \A i \in ColdBoots :
        LET fm == boot[i].fileMap
        IN  CreateViteAliasMap(fm).threw
                <=> (\A e \in 1..Len(fm) : Len(fm[e].vals) < 2)

\* The alias list createViteAliasMap builds before it prints the warning has
\* exactly one entry per key, find the key and replacement the first path of
\* the key; the keys that are array indices (the key 1 of a file 1.t under a
\* root without prefix) come first, in ascending numeric order, and the other
\* keys follow in the order they were inserted (not a claim of the list; it
\* bounds the failure of C5).
C5_ProjectionInOwnKeyOrder ==
    \A i \in ColdBoots :
        LET fm == boot[i].fileMap
            a == CreateViteAliasMap(fm).aliasMap
        IN  /\ Len(a) = Len(fm)
            /\ \A j \in 1..Len(a) :
                  /\ HasKey(fm, a[j].find)
                  /\ a[j].replacement = GetKey(fm, a[j].find)[1]
            /\ \A j1, j2 \in 1..Len(a) :
                  j1 < j2 =>
                      /\ a[j1].find # a[j2].find
                      /\ IsArrayIndex(a[j2].find) => IsArrayIndex(a[j1].find)
                      /\ (IsArrayIndex(a[j1].find) /\ IsArrayIndex(a[j2].find))
                            => IndexLess(a[j1].find, a[j2].find)
                      /\ (~IsArrayIndex(a[j1].find) /\ ~IsArrayIndex(a[j2].find))
                            => IndexOfKey(fm, a[j1].find) < IndexOfKey(fm, a[j2].find)

\* A fileMap whose keys were inserted as a name, 2, 1 and whose alias list runs
\* 1, 2, the name.
C5_Witness ==
    \E i \in ColdBoots :
        LET fm == boot[i].fileMap
            a == CreateViteAliasMap(fm).aliasMap
        IN  /\ Len(fm) = 3
            /\ ~IsArrayIndex(fm[1].key)
            /\ IsArrayIndex(fm[2].key) /\ IsArrayIndex(fm[3].key)
            /\ IndexLess(fm[3].key, fm[2].key)
            /\ a[1].find = fm[3].key /\ a[2].find = fm[2].key /\ a[3].find = fm[1].key

\* deserialize(serialize(fileMap)) did not throw and has the keys of fileMap,
\* each with the same absolute paths in the same order.
RoundTrips(fileMap) ==
    LET back == TsConfigPathsToFileMap(TsConfigPathsContents(fileMap))
    IN  /\ ~back.threw
        /\ KeysOf(back.fileMap) = KeysOf(fileMap)
        /\ \A k \in KeysOf(fileMap) : GetKey(back.fileMap, k) = GetKey(fileMap, k)

\* C6: for every fileMap, tsConfigPathsToFileMap of the contents that
\* writeTsConfigPathsJSON writes for it has the same keys and, per key, the same
\* paths in the same order.
C6_RoundTrip == \A i \in ColdBoots : RoundTrips(boot[i].fileMap)

\* The round trip does hold of every reachable fileMap none of whose paths has
\* a double quote in it (not a claim of the list; it bounds the failure of C6).
RoundTripWithoutQuotes ==
    \A i \in ColdBoots :
        (\A p \in PathsOf(boot[i].fileMap) : IsJsonStringText(p))
            => RoundTrips(boot[i].fileMap)

\* The final write of invocation i is in flight.
FinalWriteInFlight(i) == \E w \in io : w.op = "write" /\ w.owner = i /\ w.final

\* C7: on the cold path the alias list is the projection of the fileMap as it
\* was at the ready signal and the final write, of that fileMap, is started
\* with it; from then until the final write completes that write is in flight,
\* the flag is not set by this invocation and the result is pending; the result
\* is available only with the flag set, after the final write has completed.
\* (Where the projection throws, none of the later steps happens.)
C7_ReadyOrder ==
    \A i \in ColdBoots :
        LET b == boot[i]
            atReady == ReplayLog(Mutations(BeforeReady(b.hist)), b.aliasArray)
            finals == SelectSeq(b.writes, LAMBDA w : w.final)
        IN  /\ ~b.ready => (b.result = "pending" /\ b.aliasMap = <<>> /\ finals = <<>>)
            /\ b.projection = "threw" => (b.result = "pending" /\ finals = <<>>)
            /\ b.projection = "returned" =>
                  /\ b.ready
                  /\ b.aliasMap = CreateViteAliasMap(atReady).aliasMap
                  /\ Len(finals) = 1
                  /\ finals[1].contents = TsConfigPathsContents(atReady)
            /\ (b.projection = "returned" /\ b.result = "pending") =>
                  (FinalWriteInFlight(i) /\ b.flagWrites = 0)
            /\ b.result = "resolved" =>
                  /\ b.projection = "returned"
                  /\ b.flagWrites = 1
                  /\ env
                  /\ ~FinalWriteInFlight(i)
            /\ env => \E j \in ColdBoots :
                          boot[j].result = "resolved" /\ ~FinalWriteInFlight(j)

\* C7 witness: the result is available, the flag is set, and the alias list is
\* the projection at the ready signal, not that of the fileMap as it is now.
C7_Witness ==
    \E i \in ColdBoots :
        /\ boot[i].result = "resolved"
        /\ env
        /\ boot[i].aliasMap # <<>>
        /\ boot[i].aliasMap # CreateViteAliasMap(boot[i].fileMap).aliasMap

\* C8: an invocation made with the flag set has no watcher: it is handed no
\* add, unlink or ready event and starts no write, before or after it resolves;
\* its alias list is the projection of the fileMap parsed from the file.
C8_WarmProcessesNoEvents ==
    \A i \in 1..MaxBoot :
        boot[i].mode = "warm" =>
            /\ \A e \in 1..Len(boot[i].hist) : boot[i].hist[e].evt = "read"
            /\ ~boot[i].ready
            /\ \A w \in io : w.owner = i => w.op = "read"
            /\ boot[i].result = "resolved" =>
                  /\ boot[i].aliasMap = CreateViteAliasMap(boot[i].fileMap).aliasMap
                  /\ boot[i].hist = <<[evt |-> "read", path |-> <<>>, threw |-> FALSE]>>

\* C8 witness: a warm invocation has resolved with a non-empty alias list read
\* back from the file, while the watcher of the cold start before it did process
\* an event.
C8_Witness ==
    \E i \in WarmBoots :
        /\ boot[i].result = "resolved"
        /\ boot[i].aliasMap # <<>>
        /\ nevents > 0

\* C9: a warm invocation whose file did not parse ends rejected, and starts no
\* cold scan.
C9_MalformedWarmRejects ==
    \A i \in WarmBoots :
        (\E e \in 1..Len(boot[i].hist) :
            boot[i].hist[e].evt = "read" /\ boot[i].hist[e].threw)
        => /\ boot[i].result = "rejected"
           /\ ~boot[i].ready
           /\ \A e \in 1..Len(boot[i].hist) : ~IsMutation(boot[i].hist[e])

\* C10: an unlink of a path that is not in the fileMap leaves the fileMap as it
\* was and does not fail.
C10_UnlinkAbsentIsNoOp ==
    \A i \in ColdBoots :
        LET m == Mutations(boot[i].hist)
            n == Len(m)
            before == ReplayLog(SubSeq(m, 1, n - 1), boot[i].aliasArray)
        IN  (n >= 1 /\ m[n].evt = "unlink" /\ m[n].path \notin PathsOf(before))
                => (~m[n].threw /\ boot[i].fileMap = before)

\* Where the key of the absent path is present, the unlink is the no-op C10
\* describes (not a claim of the list; it bounds the failure of C10).
UnlinkAbsentPathOfPresentKey ==
    \A i \in ColdBoots :
        LET m == Mutations(boot[i].hist)
            n == Len(m)
            before == ReplayLog(SubSeq(m, 1, n - 1), boot[i].aliasArray)
        IN  (/\ n >= 1 /\ m[n].evt = "unlink"
             /\ m[n].path \notin PathsOf(before)
             /\ HasKey(before, MapKey(m[n].path, boot[i].aliasArray)))
                => (~m[n].threw /\ boot[i].fileMap = before)

\* ------------------------------------------------- claims: persist per event

\* The places in a log of the entries that started a write: the add and unlink
\* events that did not throw and, when the projection returned, the ready
\* signal.
WritingEntries(hist, projection) ==
    SelectSeq([e \in 1..Len(hist) |-> e],
              LAMBDA e : \/ (IsMutation(hist[e]) /\ ~hist[e].threw)
                         \/ (hist[e].evt = "ready" /\ projection = "returned"))

\* The fileMap of a cold start right after entry e of its log.
FileMapAfter(hist, e, aliasArray) ==
    ReplayLog(Mutations(SubSeq(hist, 1, e)), aliasArray)

\* C11: every add or unlink event that was processed started exactly one write
\* of the whole file, in the order of the events, and the contents of that
\* write are the serialization of the fileMap as it was right after the
\* mutation of that event; the adds of the cold scan each started theirs before
\* the final write of the ready signal.
C11_OneRewritePerEvent ==
    \A i \in ColdBoots :
        LET b == boot[i]
            at == WritingEntries(b.hist, b.projection)
        IN  /\ Len(b.writes) = Len(at)
            /\ \A j \in 1..Len(at) :
                  /\ b.writes[j].final = (b.hist[at[j]].evt = "ready")
                  /\ b.writes[j].owner = i
                  /\ b.writes[j].contents =
                         TsConfigPathsContents(FileMapAfter(b.hist, at[j], b.aliasArray))
            /\ \A j1, j2 \in 1..Len(b.writes) :
                  j1 < j2 => b.writes[j1].id < b.writes[j2].id

\* C11 witness: a cold scan delivered two adds and then the ready signal, and
\* three writes were started: two different ones for the adds, then the final.
C11_Witness ==
    \E i \in ColdBoots :
        LET b == boot[i]
        IN  /\ Len(b.hist) >= 3
            /\ b.hist[1].evt = "add" /\ b.hist[2].evt = "add"
            /\ b.hist[3].evt = "ready"
            /\ Len(b.writes) = 3
            /\ ~b.writes[1].final /\ ~b.writes[2].final /\ b.writes[3].final
            /\ b.writes[1].contents # b.writes[2].contents
            /\ b.writes[2].contents = b.writes[3].contents

\* ------------------------------------------------------- claims: the flag

\* How often the invocations wrote process.env[INITIALIZED_FLAG].
RECURSIVE FlagWritesUpTo(_)
FlagWritesUpTo(n) ==
    IF n = 0 THEN 0 ELSE boot[n].flagWrites + FlagWritesUpTo(n - 1)

\* C12: in one process the flag is written once at most, whatever the number
\* and the interleaving of the invocations; once written it is set; and every
\* invocation made has read it exactly once.
C12_FlagSetOnce ==
    /\ FlagWritesUpTo(MaxBoot) <= 1
    /\ FlagWritesUpTo(MaxBoot) >= 1 => env
    /\ \A i \in 1..MaxBoot : boot[i].mode # "idle" => boot[i].flagReads = 1

\* The flag is never unset, an invocation reads it once, and without a cold
\* start that has resolved it is not set (not a claim of the list; it bounds
\* the failure of C12 to the number of writes).
FlagReadOnceNeverUnset ==
    /\ FlagWritesUpTo(MaxBoot) >= 1 => env
    /\ env => \E i \in ColdBoots : boot[i].result = "resolved"
    /\ \A i \in 1..MaxBoot : boot[i].mode # "idle" => boot[i].flagReads = 1
    /\ \A i \in 1..MaxBoot : boot[i].flagWrites <= 1

\* ------------------------------------------------- claims: the duplicates

\* The keys of a fileMap that hold more than one path.
DuplicateKeys(fileMap) ==
    {k \in KeysOf(fileMap) : Len(GetKey(fileMap, k)) > 1}

\* The lines of one kind among what was printed.
LinesOfKind(console, kind) == SelectSeq(console, LAMBDA l : l.kind = kind)

\* C13: the duplicates createViteAliasMap collects are exactly the keys with
\* more than one path, once each, each with all the paths of its key in the
\* order of the fileMap; the replacement of every key, reported or not, is the
\* first path of the key; and the warning printed for them names each reported
\* key with the number of its paths and marks the first path as the one in use.
C13_DuplicatesReport ==
    \A i \in ColdBoots :
        LET fm == boot[i].fileMap
            made == CreateViteAliasMap(fm)
            dups == made.duplicates
            counts == LinesOfKind(made.console, "count")
        IN  /\ {dups[j].key : j \in 1..Len(dups)} = DuplicateKeys(fm)
            /\ \A j1, j2 \in 1..Len(dups) : j1 # j2 => dups[j1].key # dups[j2].key
            /\ \A j \in 1..Len(dups) : dups[j].vals = GetKey(fm, dups[j].key)
            /\ \A k \in KeysOf(fm) :
                  ReplacementOf(made.aliasMap, k) = GetKey(fm, k)[1]
            /\ ~made.threw =>
                  /\ Len(counts) = Len(dups)
                  /\ \A j \in 1..Len(dups) :
                        /\ counts[j].name = dups[j].key
                        /\ counts[j].count = Len(dups[j].vals)
                  /\ \A l \in 1..Len(made.console) :
                        (made.console[l].kind = "path" /\ made.console[l].using)
                            => made.console[l].path =
                                   PathRelative(DIR_NAME,
                                                GetKey(fm, made.console[l].name)[1])

\* C13 witness: a fileMap with a key of two different paths and a key of one
\* path: the report holds the first key alone, with both paths.
C13_Witness ==
    \E i \in ColdBoots :
        LET fm == boot[i].fileMap
            made == CreateViteAliasMap(fm)
        IN  /\ Len(fm) = 2
            /\ Len(fm[1].vals) = 2 /\ fm[1].vals[1] # fm[1].vals[2]
            /\ Len(fm[2].vals) = 1
            /\ Len(made.duplicates) = 1
            /\ made.duplicates[1].vals = fm[1].vals
            /\ ~made.threw

\* C14: the invocation printed something if and only if the fileMap it
\* projected had a key with more than one path.
C14_DiagnosticOnlyOnDuplicates ==
    \A i \in ColdBoots :
        LET b == boot[i]
            atReady == ReplayLog(Mutations(BeforeReady(b.hist)), b.aliasArray)
        IN  b.projection # "none" =>
                (b.console # <<>> <=> DuplicateKeys(atReady) # {})

\* Where the projected fileMap has a key with more than one path, the warning
\* is printed whole, and where it has none a single empty line is printed and
\* the projection throws (not a claim of the list; it bounds the failure of
\* C14).
DiagnosticOnDuplicates ==
    \A i \in ColdBoots :
        LET b == boot[i]
            atReady == ReplayLog(Mutations(BeforeReady(b.hist)), b.aliasArray)
        IN  /\ (b.projection # "none" /\ DuplicateKeys(atReady) # {}) =>
                  /\ b.projection = "returned"
                  /\ Len(LinesOfKind(b.console, "header")) = 1
                  /\ Len(LinesOfKind(b.console, "count"))
                         = Cardinality(DuplicateKeys(atReady))
            /\ (b.projection # "none" /\ DuplicateKeys(atReady) = {}) =>
                  /\ b.projection = "threw"
                  /\ b.console = <<BlankCall>>

\* ------------------------------------------------- claims: the key order

\* The names of the lines of a file's contents, in the order of the text.
NamesOf(contents) == [j \in 1..Len(contents.lines) |-> contents.lines[j].name]

\* The names ascend when compared without regard to case.
AscendingIgnoringCase(names) ==
    \A j1, j2 \in 1..Len(names) :
        j1 < j2 => ~StrLess(ToLowerCase(names[j2]), ToLowerCase(names[j1]))

\* C15: in every write the watcher started, the keys of the file ascend when
\* compared without regard to case, whatever the order they were inserted in.
C15_KeysAscendingIgnoringCase ==
    \A i \in ColdBoots :
        \A j \in 1..Len(boot[i].writes) :
            AscendingIgnoringCase(NamesOf(boot[i].writes[j].contents))

\* In a locale without special casing rules the keys do ascend; Zeta, alpha and
\* Beta, in whatever order they were inserted, are written alpha, Beta, Zeta in
\* every locale (not a claim of the list; it bounds the failure of C15).
KeysAscendingInPlainLocale ==
    \A i \in ColdBoots :
        \A j \in 1..Len(boot[i].writes) :
            LET names == NamesOf(boot[i].writes[j].contents)
            IN  /\ locale = "en-US" => AscendingIgnoringCase(names)
                /\ {names[n] : n \in 1..Len(names)}
                       = {<<"Z", "e", "t", "a">>, <<"a", "l", "p", "h", "a">>,
                          <<"B", "e", "t", "a">>}
                   => names = <<(<<"a", "l", "p", "h", "a">>),
                                (<<"B", "e", "t", "a">>),
                                (<<"Z", "e", "t", "a">>)>>

\* ------------------------------------------------- claims: the empty root

\* C16: a cold start whose watcher has signalled ready without having reported
\* a file has its final write in flight or is resolved, with an empty alias
\* list and a file whose paths section is empty and parses to the empty fileMap.
C16_EmptyRootReachesReady ==
    \A i \in ColdBoots :
        LET b == boot[i]
        IN  (b.ready /\ Mutations(b.hist) = <<>>) =>
                \/ FinalWriteInFlight(i)
                \/ /\ b.result = "resolved"
                   /\ b.aliasMap = <<>>
                   /\ disk = TsConfigPathsContents(<<>>)
                   /\ TsConfigPathsToFileMap(disk) = [fileMap |-> <<>>, threw |-> FALSE]

\* The file written for the empty fileMap has no line and parses to the empty
\* fileMap (not a claim of the list; it bounds the failure of C16).
EmptyFileMapRoundTrips ==
    /\ TsConfigPathsContents(<<>>).lines = <<>>
    /\ TsConfigPathsToFileMap(TsConfigPathsContents(<<>>))
           = [fileMap |-> <<>>, threw |-> FALSE]

\* ------------------------------------------------- claims: add and the watch

RECURSIVE AfterReady(_)
AfterReady(hist) ==
    IF hist = <<>> THEN <<>>
    ELSE IF hist[1].evt = "ready" THEN Tail(hist)
    ELSE AfterReady(Tail(hist))

\* The writes of a log after its final write (none when it has none).
RECURSIVE AfterFinal(_)
AfterFinal(writes) ==
    IF writes = <<>> THEN <<>>
    ELSE IF writes[1].final THEN Tail(writes)
    ELSE AfterFinal(Tail(writes))

\* C18: the watcher of a cold start that has resolved is still at work: the
\* fileMap is the one all the events delivered so far give, those after the
\* ready signal included, and each of these that was processed started a write
\* of the fileMap it left.
C18_WatcherStaysAfterReady ==
    \A i \in ColdBoots :
        LET b == boot[i]
            late == SelectSeq(AfterReady(b.hist), LAMBDA e : IsMutation(e) /\ ~e.threw)
            early == Len(Mutations(BeforeReady(b.hist)))
            lateWrites == AfterFinal(b.writes)
        IN  b.result = "resolved" =>
                /\ b.fileMap = ReplayLog(Mutations(b.hist), b.aliasArray)
                /\ Len(lateWrites) = Len(late)
                /\ \A j \in 1..Len(lateWrites) : ~lateWrites[j].final
                /\ lateWrites # <<>> =>
                      lateWrites[Len(lateWrites)].contents
                          = TsConfigPathsContents(b.fileMap)

\* C18 witness: a cold start resolved, and an event delivered after that has
\* changed the fileMap and started a write of it.
C18_Witness ==
    \E i \in ColdBoots :
        LET b == boot[i]
            atReady == ReplayLog(Mutations(BeforeReady(b.hist)), b.aliasArray)
        IN  /\ b.result = "resolved"
            /\ b.hist[Len(b.hist)].evt \in {"add", "unlink"}
            /\ ~b.hist[Len(b.hist)].threw
            /\ b.fileMap # atReady
            /\ ~b.writes[Len(b.writes)].final
            /\ b.writes[Len(b.writes)].contents = TsConfigPathsContents(b.fileMap)

\* ----------------------------------------------------- claims: I/O failures

\* The log has an entry of the kind.
HasEntry(hist, evt) == \E e \in 1..Len(hist) : hist[e].evt = evt

\* C19: after the write of an add or unlink event has failed the watch goes
\* on: the process runs, the fileMap keeps the mutation of that event, and the
\* write was not started again.
C19_EventFailureKeepsWatch ==
    \A i \in ColdBoots :
        LET b == boot[i]
        IN  HasEntry(b.hist, "writeFailed") =>
                /\ alive
                /\ b.fileMap = ReplayLog(Mutations(b.hist), b.aliasArray)
                /\ Len(b.writes) = Len(WritingEntries(b.hist, b.projection))

\* The failed write of an event is not retried and the fileMap keeps the
\* mutation of the event; the rejection is one nothing handles (not a claim of
\* the list; it bounds the failure of C19).
EventFailureKeepsMutation ==
    \A i \in ColdBoots :
        LET b == boot[i]
        IN  HasEntry(b.hist, "writeFailed") =>
                /\ b.fileMap = ReplayLog(Mutations(b.hist), b.aliasArray)
                /\ Len(b.writes) = Len(WritingEntries(b.hist, b.projection))
                /\ unhandled >= 1

\* C20: an invocation whose read of the file failed (warm) or whose final write
\* failed (cold) is rejected, and the cold one has not set the flag.
C20_BootstrapIoFailureRejects ==
    \A i \in 1..MaxBoot :
        LET b == boot[i]
        IN  (HasEntry(b.hist, "readFailed") \/ HasEntry(b.hist, "finalWriteFailed"))
                => /\ b.result = "rejected"
                   /\ b.mode = "cold" => b.flagWrites = 0

\* After such a failure the promise of the invocation is pending, the cold one
\* has not set the flag, and the rejection is one nothing handles (not a claim
\* of the list; it bounds the failure of C20).
BootstrapIoFailureLeavesPending ==
    \A i \in 1..MaxBoot :
        LET b == boot[i]
        IN  (HasEntry(b.hist, "readFailed") \/ HasEntry(b.hist, "finalWriteFailed"))
                => /\ b.result = "pending"
                   /\ b.flagWrites = 0
                   /\ unhandled >= 1

\* ------------------------------------------------ claims: warm against cold

\* The {find, replacement} pairs of an alias list.
PairsOf(aliasMap) == {aliasMap[j] : j \in 1..Len(aliasMap)}

\* The entries of a duplicates list: key, candidates in order, and the winner.
ReportOf(duplicates) ==
    {[key |-> duplicates[j].key, vals |-> duplicates[j].vals,
      using |-> duplicates[j].vals[1]] : j \in 1..Len(duplicates)}

\* A warm start on the file written for fileMap throws when the projection of
\* fileMap throws, and gives what it gives otherwise.
WarmMatchesCold(fileMap) ==
    LET warm == WarmStart(TsConfigPathsContents(fileMap))
        cold == CreateViteAliasMap(fileMap)
    IN  /\ warm.threw = cold.threw
        /\ ~cold.threw =>
               /\ PairsOf(warm.aliasMap) = PairsOf(cold.aliasMap)
               /\ ReportOf(warm.duplicates) = ReportOf(cold.duplicates)

\* C21: for every fileMap, a warm start that reads the file written for it has
\* the pairs {find, replacement} and the duplicates (keys, candidates in order,
\* winner) that createViteAliasMap gives for the fileMap itself.
C21_WarmMatchesCold ==
    \A i \in ColdBoots : WarmMatchesCold(boot[i].fileMap)

\* It does for every fileMap none of whose paths has a double quote in it (not
\* a claim of the list; it bounds the failure of C21).
WarmMatchesColdWithoutQuotes ==
    \A i \in ColdBoots :
        (\A p \in PathsOf(boot[i].fileMap) : IsJsonStringText(p))
            => WarmMatchesCold(boot[i].fileMap)

\* ------------------------------------------------------ claims: frame effects

\* A sequence of paths without the path P.
Without(vals, P) == SelectSeq(vals, LAMBDA val : val # P)

\* The array of a key, empty when the key is absent.
ValsOf(fileMap, k) == IF HasKey(fileMap, k) THEN GetKey(fileMap, k) ELSE <<>>

\* C24: the event processed last, for a path P of key K, left every other key
\* with the array it had, the keys in the order they had, and the paths of K
\* other than P in the order they had.
C24_EventTouchesOnlyItsPath ==
    \A i \in ColdBoots :
        LET fm == boot[i].fileMap
            arr == boot[i].aliasArray
            m == Mutations(boot[i].hist)
            n == Len(m)
            before == ReplayLog(SubSeq(m, 1, n - 1), arr)
        IN  n >= 1 =>
                LET K == MapKey(m[n].path, arr)
                IN  /\ KeysOf(fm) \ {K} = KeysOf(before) \ {K}
                    /\ \A k2 \in KeysOf(before) \ {K} :
                          GetKey(fm, k2) = GetKey(before, k2)
                    /\ DeleteKey(fm, K) = DeleteKey(before, K)
                    /\ Without(ValsOf(fm, K), m[n].path)
                           = Without(ValsOf(before, K), m[n].path)

\* C24 witness: an unlink has removed the first of the two paths of a key, and
\* the second is what the key holds now.
C24_Witness ==
    \E i \in ColdBoots :
        LET fm == boot[i].fileMap
            arr == boot[i].aliasArray
            m == Mutations(boot[i].hist)
            n == Len(m)
            before == ReplayLog(SubSeq(m, 1, n - 1), arr)
            K == MapKey(m[n].path, arr)
        IN  /\ n >= 3
            /\ m[n].evt = "unlink" /\ ~m[n].threw
            /\ Len(ValsOf(before, K)) = 2
            /\ ValsOf(before, K)[1] = m[n].path
            /\ ValsOf(fm, K) = <<ValsOf(before, K)[2]>>

\* C25: a warm invocation started no write of the file and did not write the
\* flag, before or after it resolved.
C25_WarmOnlyReads ==
    \A i \in WarmBoots :
        /\ boot[i].writes = <<>>
        /\ boot[i].flagWrites = 0
        /\ \A w \in io : w.owner = i => w.op = "read"
        /\ env

\* C25 witness: a warm invocation has resolved, having read the file once and
\* written nothing.
C25_Witness ==
    \E i \in WarmBoots :
        /\ boot[i].result = "resolved"
        /\ boot[i].flagReads = 1
        /\ boot[i].writes = <<>>
        /\ boot[i].flagWrites = 0

\* ---------------------------------------------- claims: the watcher's setup

\* The patterns a value of `ignored` gives.
GivenPatterns(ignored) ==
    IF ignored.kind = "regexp" THEN {ignored}
    ELSE IF ignored.kind = "array"
         THEN {ignored.items[j] : j \in 1..Len(ignored.items)}
         ELSE {}

\* The patterns of a list handed to the watcher.
PatternsOf(ignoredArr) == {ignoredArr[j] : j \in 1..Len(ignoredArr)}

\* C22: the patterns handed to the watcher are /vite-env.d.ts/ and the patterns
\* of every item, one or many, and no other; the watcher has one list for all
\* roots, so no file any of them matches is in the fileMap, under any root.
C22_IgnoreSetIsGlobal ==
    \A i \in ColdBoots :
        LET arr == boot[i].aliasArray
            given == UNION {GivenPatterns(arr[j].ignored) : j \in 1..Len(arr)}
        IN  /\ PatternsOf(IgnoredArr(arr)) = {ViteEnvPattern} \cup given
            /\ \A p \in PathsOf(boot[i].fileMap) :
                  \A re \in {ViteEnvPattern} \cup given : ~RegExpTest(re, p)
            /\ \A n \in 1..Len(boot[i].hist) :
                  \A re \in {ViteEnvPattern} \cup given :
                      ~RegExpTest(re, boot[i].hist[n].path)

\* C22 witness: one root gave one pattern and the other gave two; the list has
\* the four; a file under the root that gave /Y./ is kept out by the /\/g\//
\* both gave, and a file no pattern matches is in the fileMap.
C22_Witness ==
    \E i \in ColdBoots :
        LET arr == boot[i].aliasArray
        IN  /\ Len(arr) = 2
            /\ \E j1, j2 \in 1..Len(arr) :
                  /\ arr[j1].ignored.kind = "regexp"
                  /\ arr[j2].ignored.kind = "array"
                  /\ Len(arr[j2].ignored.items) = 2
                  /\ \E p \in SetupPaths \ Watched(arr) :
                        /\ MatchesGlob(p, arr[j2])
                        /\ ~RegExpTest(ViteEnvPattern, p)
            /\ Len(IgnoredArr(arr)) = 4
            /\ boot[i].fileMap # <<>>

\* The file lies in the directory of the root.
InsideRoot(p, item) == StartsWith(p, item.sourcePath \o <<SEP>>)

\* The key of a file under a root: prefix, separator, base name, or the base
\* name alone when the root has no prefix.
KeyUnder(item, p) ==
    IF item.prefix # <<>>
    THEN item.prefix \o <<SEP>> \o PathParseName(p)
    ELSE PathParseName(p)

\* C23: a path of the fileMap that lies in the directory of exactly one root is
\* under the key of that root, and its key is the one an event for the path
\* computes, add or unlink.
C23_KeyUsesContainingRoot ==
    \A i \in ColdBoots :
        LET fm == boot[i].fileMap
            arr == boot[i].aliasArray
        IN  \A k \in KeysOf(fm) :
                \A n \in 1..Len(GetKey(fm, k)) :
                    LET p == GetKey(fm, k)[n]
                        roots == {j \in 1..Len(arr) : InsideRoot(p, arr[j])}
                    IN  /\ k = MapKey(p, arr)
                        /\ \A j \in roots :
                              roots = {j} => k = KeyUnder(arr[j], p)

\* It is when no root listed before the containing one has a path the file's
\* path starts with; and add and unlink compute one key (not a claim of the
\* list; it bounds the failure of C23).
KeyUsesContainingRootListedFirst ==
    \A i \in ColdBoots :
        LET fm == boot[i].fileMap
            arr == boot[i].aliasArray
        IN  \A k \in KeysOf(fm) :
                \A n \in 1..Len(GetKey(fm, k)) :
                    LET p == GetKey(fm, k)[n]
                        roots == {j \in 1..Len(arr) : InsideRoot(p, arr[j])}
                    IN  /\ k = MapKey(p, arr)
                        /\ \A j \in roots :
                              (/\ roots = {j}
                               /\ \A j2 \in 1..(j - 1) :
                                     ~StartsWith(p, arr[j2].sourcePath))
                                  => k = KeyUnder(arr[j], p)

====
